---------------------------- MODULE Spec2Model ----------------------------
(***************************************************************************)
(* A model of class Graph of project.py: the activity network              *)
(* (activities_dict), its edit operations (add_activity, remove_activity,   *)
(* find_and_remove_isolate_activities, validate_project) and its queries    *)
(* (find_all_paths, find_critical_path, find_all_circles,                   *)
(* find_isolate_activities).                                                *)
(*                                                                         *)
(* activities_dict is a Python dict: its keys keep their insertion order,   *)
(* and each value is a reference to a list object.  Two keys may hold the   *)
(* same list object (the default argument of add_activity is one list,      *)
(* created once), so the lists live in a heap and the dict holds            *)
(* addresses.  An edge is one single-pair dict {next: duration} of a        *)
(* successor list, modelled as the record [next |-> n, dur |-> t].          *)
(***************************************************************************)
EXTENDS Integers, Sequences, FiniteSets, TLC

\* ------------------------------------------------------------------ bounds

\* Durations on the edges callers supply are 1..MaxDur.
MaxDur == 2
\* Edit operations (add, remove, prune, validate) in one run.
MaxOps == 2
\* Length of a successor list handed to add_activity.
MaxAddLen == 1
\* add_activity calls in a run that makes no other call.
MaxAdds == 3
\* Nested calls the interpreter allows before it raises RecursionError (1000
\* by default); more than the longest simple path of the networks here needs.
RecursionLimit == 6

\* Activity names callers pass to the operations (the dicts handed to the
\* constructor hold others too).
Names == {"start", "a", "end"}
Durations == 1..MaxDur
Edge == [next : Names, dur : Durations]

\* The address of the list object that is add_activity's default argument.
DefaultLst == "default"

VARIABLES
    activities_dict,      \* Seq of [key, val]: the dict, in insertion order; val is an address
    heap,                 \* address -> Seq(Edge): the list objects in use
    essential_activities, \* [none |-> TRUE] or [none |-> FALSE, map |-> mapping]
    es_ls_ef_lf,          \* the per-activity timing records filled by the constructor
    project_duration,     \* _project_duration
    op,                   \* the last operation called
    args,                 \* its arguments
    ret,                  \* what it returned
    err,                  \* the exception it raised, or "none"
    pre,                  \* the network before the last operation
    nops,                 \* edit operations so far
    path_default,         \* the list object that is find_all_paths' default path
    call                  \* a find_all_paths call followed statement by statement

vars == <<activities_dict, heap, essential_activities, es_ls_ef_lf,
          project_duration, op, args, ret, err, pre, nops, path_default,
          call>>

\* ----------------------------------------------------------------- helpers

Range(s) == {s[i] : i \in DOMAIN s}

RECURSIVE SumSeq(_)
SumSeq(s) == IF s = <<>> THEN 0 ELSE Head(s) + SumSeq(Tail(s))

\* A network value: the dict and the heap it points into.
Net(d, h) == [d |-> d, h |-> h]
Cur == Net(activities_dict, heap)

\* The keys of the dict, as a list (insertion order) and as a set.
KeyList(g) == [i \in DOMAIN g.d |-> g.d[i].key]
Keys(g) == Range(KeyList(g))
\* The address held under key n.
Val(g, n) == g.d[CHOOSE i \in DOMAIN g.d : g.d[i].key = n].val
\* self.activities_dict[n]: the successor list of n.
Get(g, n) == g.h[Val(g, n)]

\* The dict a caller passes to the constructor: every key holds a list of its
\* own (at the address named after the key); the default list is empty.
FromDict(d) ==
    Net([i \in DOMAIN d |-> [key |-> d[i][1], val |-> d[i][1]]],
        [a \in {d[i][1] : i \in DOMAIN d} \cup {DefaultLst} |->
            IF a = DefaultLst THEN <<>>
            ELSE d[CHOOSE i \in DOMAIN d : d[i][1] = a][2]])

Ed(n, t) == [next |-> n, dur |-> t]

\* ------------------------------------------------------------ add_activity

\* The argument next_activities_lst: omitted (the default list object) or a
\* fresh list of the caller's.
AddArgs ==
    {[omitted |-> TRUE, items |-> <<>>]}
    \cup {[omitted |-> FALSE, items |-> s] :
            s \in UNION {[1..k -> Edge] : k \in 0..MaxAddLen}}

ArgAddr(name, arg) == IF arg.omitted THEN DefaultLst ELSE name
ArgItems(g, arg) == IF arg.omitted THEN g.h[DefaultLst] ELSE arg.items

\* An add_activity without the test for 'end'.
AddActivityAlsoEnd(g, name, arg) ==
    IF name \notin Keys(g)
    THEN Net(Append(g.d, [key |-> name, val |-> ArgAddr(name, arg)]),
             IF arg.omitted THEN g.h ELSE (name :> arg.items) @@ g.h)
    ELSE Net(g.d, [g.h EXCEPT ![Val(g, name)] = @ \o ArgItems(g, arg)])

AddActivity(g, name, arg) ==
    IF name = "end" THEN g
    ELSE IF name \notin Keys(g)
    THEN Net(Append(g.d, [key |-> name, val |-> ArgAddr(name, arg)]),
             IF arg.omitted THEN g.h ELSE (name :> arg.items) @@ g.h)
    ELSE Net(g.d, [g.h EXCEPT ![Val(g, name)] = @ \o ArgItems(g, arg)])

\* --------------------------------------------------------- remove_activity

\* A remove that drops the first element, whatever it is.
ListRemoveHead(lst, x) == IF lst = <<>> THEN <<>> ELSE Tail(lst)

\* list.remove(x): drops the first element equal to x.
RECURSIVE ListRemove(_, _)
ListRemove(lst, x) ==
    IF lst = <<>> THEN <<>>
    ELSE IF Head(lst) = x THEN Tail(lst)
    ELSE <<Head(lst)>> \o ListRemove(Tail(lst), x)

\* The loop over one successor list: the list iterator stands at index i and
\* moves on by one after every element, also after a removal shortened the list.
RECURSIVE RemoveScan(_, _, _)
RemoveScan(lst, i, name) ==
    IF i > Len(lst) THEN lst
    ELSE IF lst[i].next = name
    THEN RemoveScan(ListRemove(lst, lst[i]), i + 1, name)
    ELSE RemoveScan(lst, i + 1, name)

\* The loop over the dict's items, from the k-th on.
RECURSIVE RemoveFromAll(_, _, _, _)
RemoveFromAll(d, h, k, name) ==
    IF k > Len(d) THEN h
    ELSE RemoveFromAll(d, [h EXCEPT ![d[k].val] = RemoveScan(@, 1, name)], k + 1, name)

\* A pop that drops nothing.
DictPopNothing(g, name) == g

\* dict.pop(name, default): drops the key if it is there. A list only the
\* dropped key held is garbage, and leaves the heap.
DictPop(g, name) ==
    Net(SelectSeq(g.d, LAMBDA e : e.key # name),
        IF name \in Keys(g) /\ Val(g, name) = name
        THEN [a \in DOMAIN g.h \ {name} |-> g.h[a]] ELSE g.h)

RemoveActivity(g, name) ==
    LET p == DictPop(g, name)
    IN Net(p.d, RemoveFromAll(p.d, p.h, 1, name))

\* ----------------------------------------------------------- find_all_paths

\* A loop that stops one successor early.
NextNodesButLast(g, v) == SubSeq(Get(g, v), 1, Len(Get(g, v)) - 1)

\* graph[start_vertex]: the successor list the loop of find_all_paths walks.
NextNodes(g, v) == Get(g, v)

\* find_all_paths(start_vertex, end_vertex, path): the paths in the order the
\* recursion appends them.
\* The default path object after a call that began at start_vertex, had the
\* code extended it in place (path += [start_vertex]).
PathExtendedInPlace(path, start_vertex) == Append(path, start_vertex)

\* The default path object after a call: path = path + [start_vertex] binds
\* the local name to a new list, and nothing else touches the object.
PathAfterCall(path, start_vertex) == path

RECURSIVE FindAllPaths(_, _, _, _)
FindAllPaths(g, start_vertex, end_vertex, path) ==
    LET p == Append(path, start_vertex)
    IN IF start_vertex = end_vertex THEN <<p>>
       ELSE IF start_vertex \notin Keys(g) THEN <<>>
       ELSE LET lst == NextNodes(g, start_vertex)
                paths[i \in 0..Len(lst)] ==
                    IF i = 0 THEN <<>>
                    ELSE paths[i - 1] \o
                         (IF lst[i].next \notin Range(p)
                          THEN FindAllPaths(g, lst[i].next, end_vertex, p)
                          ELSE <<>>)
            IN paths[Len(lst)]

\* ------------------------------------------------------- find_critical_path

\* The loop over next_nodes_list: every edge of node whose successor is
\* next_node_to_find adds its duration (the break leaves only the loop over
\* the one pair of the edge's dict).
EdgeDurations(g, node, next_node_to_find) ==
    LET lst == Get(g, node)
    IN SumSeq([i \in DOMAIN lst |->
                 IF lst[i].next = next_node_to_find THEN lst[i].dur ELSE 0])

\* A loop over path_list that leaves out the hop into the last node.
PathDurationButLast(g, path_list, end_node) ==
    SumSeq([k \in DOMAIN path_list |->
              IF path_list[k] # end_node /\ k + 1 < Len(path_list)
              THEN EdgeDurations(g, path_list[k], path_list[k + 1])
              ELSE 0])

\* durations_lst[paths_lst_index] after the loop over path_list.
PathDuration(g, path_list, end_node) ==
    SumSeq([k \in DOMAIN path_list |->
              IF path_list[k] # end_node
              THEN EdgeDurations(g, path_list[k], path_list[k + 1])
              ELSE 0])

\* max(lst) of a non-empty list.
MaxOf(lst) == CHOOSE m \in Range(lst) : \A x \in Range(lst) : x <= m

\* The last position of x instead of the first.
ListIndexLast(lst, x) ==
    CHOOSE i \in DOMAIN lst : lst[i] = x /\ \A j \in (i + 1)..Len(lst) : lst[j] # x

\* lst.index(x): the first position of x.
ListIndex(lst, x) ==
    CHOOSE i \in DOMAIN lst : lst[i] = x /\ \A j \in 1..(i - 1) : lst[j] # x

\* self.essential_activities.keys() is evaluated once per edge of a node of a
\* path that is not end_node; with essential_activities None it raises.
ReadsEssential(g, paths, end_node) ==
    \E i \in DOMAIN paths : \E k \in DOMAIN paths[i] :
        paths[i][k] # end_node /\ Get(g, paths[i][k]) # <<>>

\* find_critical_path once find_all_paths has returned paths: the exception
\* raised, the value returned, and _project_duration after the call.
CriticalPathOf(g, ess, pd, paths, end_node) ==
    LET durations_lst ==
            [i \in DOMAIN paths |-> PathDuration(g, paths[i], end_node)] \o <<>>
    IN IF ess.none /\ ReadsEssential(g, paths, end_node)
       THEN [err |-> "AttributeError", ret |-> <<>>, pd |-> pd]
       ELSE IF paths = <<>>
       THEN [err |-> "ValueError", ret |-> <<>>, pd |-> pd]
       ELSE LET max_duration == MaxOf(durations_lst)
            IN [err |-> "none",
                ret |-> paths[ListIndex(durations_lst, max_duration)],
                pd |-> max_duration]

\* find_critical_path: find_all_paths, then the above.
FindCriticalPath(g, ess, pd, start_node, end_node) ==
    CriticalPathOf(g, ess, pd,
                   FindAllPaths(g, start_node, end_node, path_default), end_node)

\* --------------------------------------------------------- find_all_circles

\* The loop of find_all_circles_helper: fringe is the stack (its top is the
\* last element), out the paths yielded so far. self.activities_dict[state]
\* raises KeyError for a state that is no key.
RECURSIVE CirclesLoop(_, _, _, _)
CirclesLoop(g, end_node, fringe, out) ==
    IF fringe = <<>> THEN [err |-> "none", out |-> out]
    ELSE LET top == fringe[Len(fringe)]
             rest == SubSeq(fringe, 1, Len(fringe) - 1)
             state == top[1]
             path == top[2]
         IN IF path # <<>> /\ state = end_node
            THEN CirclesLoop(g, end_node, rest, Append(out, path))
            ELSE IF state \notin Keys(g)
            THEN [err |-> "KeyError", out |-> out]
            ELSE LET lst == Get(g, state)
                     open == SelectSeq(lst, LAMBDA e : e.next \notin Range(path))
                     pushed == [i \in DOMAIN open |->
                                  <<open[i].next, Append(path, open[i].next)>>]
                 IN CirclesLoop(g, end_node, rest \o pushed, out)

FindAllCirclesHelper(g, start_node, end_node) ==
    CirclesLoop(g, end_node, << <<start_node, <<>> >> >>, <<>>)

\* [node] + path for every path of out.
WithNode(node, out) == [j \in DOMAIN out |-> <<node>> \o out[j]]

\* find_all_circles: [node] + path for every node of the dict, in its order,
\* and every path the helper yields for it. ks are the nodes still to do,
\* circles the list so far.
RECURSIVE CirclesOf(_, _, _)
CirclesStep(g, ks, circles, r) ==
    IF r.err # "none" THEN [err |-> r.err, ret |-> <<>>]
    ELSE CirclesOf(g, Tail(ks), circles \o WithNode(Head(ks), r.out))
CirclesOf(g, ks, circles) ==
    IF ks = <<>> THEN [err |-> "none", ret |-> circles]
    ELSE CirclesStep(g, ks, circles, FindAllCirclesHelper(g, Head(ks), Head(ks)))

FindAllCircles(g) == CirclesOf(g, KeyList(g) \o <<>>, <<>>)

\* -------------------------------------------------- find_isolate_activities

\* The keys that have an edge, without the successors the edges name.
NonIsolatedSourcesOnly(g) == {n \in Keys(g) : Len(Get(g, n)) > 0}

\* The successors the edges name, without the keys that have an edge.
NonIsolatedTargetsOnly(g) ==
    UNION {{e.next : e \in Range(Get(g, n))} : n \in Keys(g)}

\* The union of the two loops of find_isolate_activities: the keys with at
\* least one edge, and every successor an edge names.
NonIsolated(g) ==
    {n \in Keys(g) : Len(Get(g, n)) > 0}
    \cup UNION {{e.next : e \in Range(Get(g, n))} : n \in Keys(g)}

FindIsolateActivities(g) ==
    SelectSeq(KeyList(g), LAMBDA n : n \notin NonIsolated(g))

\* A loop that passes over the first of the isolated activities.
RECURSIVE RemoveEachButFirst(_, _)
RemoveEachButFirst(g, lst) ==
    IF Len(lst) < 2 THEN g
    ELSE RemoveEachButFirst(RemoveActivity(g, lst[2]), Tail(lst))

\* find_and_remove_isolate_activities: remove_activity for each, in order.
RECURSIVE RemoveEach(_, _)
RemoveEach(g, lst) ==
    IF lst = <<>> THEN g ELSE RemoveEach(RemoveActivity(g, Head(lst)), Tail(lst))

FindAndRemoveIsolateActivities(g) == RemoveEach(g, FindIsolateActivities(g))

\* validate_project: prunes, then prints what find_all_circles returns.
ValidateProject(g) ==
    LET pruned == FindAndRemoveIsolateActivities(g)
    IN [net |-> pruned, err |-> FindAllCircles(pruned).err]

\* ------------------------------------------------------------- the machine

\* The network of the module's demonstration, with the activities named as
\* in the design's concrete scenario.
DemoDict ==
    << <<"start", <<Ed("A", 5), Ed("B", 7), Ed("C", 6)>> >>,
       <<"A", <<Ed("D", 3), Ed("E", 9)>> >>,
       <<"B", <<Ed("D", 1), Ed("F", 4)>> >>,
       <<"C", <<Ed("F", 6), Ed("E", 13)>> >>,
       <<"D", <<Ed("end", 8)>> >>,
       <<"E", <<Ed("end", 5)>> >>,
       <<"F", <<Ed("end", 11)>> >>,
       <<"end", <<>> >> >>

\* The dicts handed to the constructor: none, two routes of equal duration,
\* and a network with a cycle.
InitDicts ==
    { <<>>,
      << <<"start", <<Ed("a", 1), Ed("end", 2)>> >>, <<"a", <<Ed("end", 1)>> >>,
         <<"end", <<>> >> >>,
      << <<"start", <<Ed("a", 1)>> >>, <<"a", <<Ed("b", 1)>> >>,
         <<"b", <<Ed("a", 2), Ed("end", 1)>> >>, <<"end", <<>> >> >> }

\* The essential_activities a caller passes or assigns.
NoEssential == [none |-> TRUE, map |-> <<>>]
EmptyEssential == [none |-> FALSE, map |-> <<>>]
SomeEssential == [none |-> FALSE, map |-> << <<"a", <<"start">> >> >>]
\* The demonstration's: E waits for B, from which no edge leads to E.
DemoEssential == [none |-> FALSE, map |-> << <<"E", <<"B">> >> >>]

\* No call is being followed.
NoCall == [pc |-> "idle", name |-> "none", args |-> <<>>, stack |-> <<>>,
           result |-> <<>>]

\* Graph(d, ess): the state the constructor leaves.
Constructed(d, ess) ==
    /\ activities_dict = FromDict(d).d
    /\ heap = FromDict(d).h
    /\ es_ls_ef_lf = [n \in Keys(FromDict(d)) |-> <<0, 0, 0, 0>>]
    /\ essential_activities = ess
    /\ project_duration = 0
    /\ op = "init"
    /\ args = <<>>
    /\ ret = <<>>
    /\ err = "none"
    /\ pre = FromDict(d)
    /\ nops = 0
    /\ path_default = <<>>
    /\ call = NoCall

Init == \E d \in InitDicts : Constructed(d, NoEssential)

InitDemo == Constructed(DemoDict, NoEssential)

\* A query that drops the first key of the dict it reads.
QueryConsuming(name, a, r, e) ==
    /\ op' = name
    /\ args' = a
    /\ ret' = r
    /\ err' = e
    /\ pre' = Cur
    /\ activities_dict' =
         (IF activities_dict = <<>> THEN <<>> ELSE Tail(activities_dict))
    /\ UNCHANGED <<heap, es_ls_ef_lf, nops, call>>

\* What an operation that leaves the network alone does to the bookkeeping.
Query(name, a, r, e) ==
    /\ op' = name
    /\ args' = a
    /\ ret' = r
    /\ err' = e
    /\ pre' = Cur
    /\ UNCHANGED <<activities_dict, heap, es_ls_ef_lf, nops, call>>

\* What an edit operation does to it.
Edit(name, a, g, e) ==
    /\ activities_dict' = g.d
    /\ heap' = g.h
    /\ op' = name
    /\ args' = a
    /\ ret' = <<>>
    /\ err' = e
    /\ pre' = Cur
    /\ nops' = nops + 1
    /\ UNCHANGED <<essential_activities, es_ls_ef_lf, project_duration,
                   path_default, call>>

\* g.essential_activities = value, for a value out of V, right after
\* construction; None becomes dict().
SetEssentialActivities(V) ==
    /\ op = "init"
    /\ \E v \in V :
         /\ essential_activities' = (IF v.none THEN EmptyEssential ELSE v)
         /\ Query("set_essential_activities", <<v>>, <<>>, "none")
    /\ UNCHANGED <<project_duration, path_default>>

set_essential_activities == SetEssentialActivities({NoEssential, SomeEssential})

\* add_activity(name, arg), as one of at most n edit operations.
AddActivityCall(n) ==
    /\ nops < n
    /\ \E name \in Names, arg \in AddArgs :
         Edit("add_activity", <<name, arg>>, AddActivity(Cur, name, arg), "none")

add_activity == AddActivityCall(MaxOps)

\* add_activity in a run of add_activity calls only.
add_activity_in_sequence == AddActivityCall(MaxAdds)

remove_activity ==
    /\ nops < MaxOps
    /\ \E name \in Names :
         Edit("remove_activity", <<name>>, RemoveActivity(Cur, name), "none")

find_and_remove_isolate_activities ==
    /\ nops < MaxOps
    /\ Edit("find_and_remove_isolate_activities", <<>>,
            FindAndRemoveIsolateActivities(Cur), "none")

validate_project ==
    /\ nops < MaxOps
    /\ LET v == ValidateProject(Cur)
       IN Edit("validate_project", <<>>, v.net, v.err)

find_all_circles ==
    /\ LET r == FindAllCircles(Cur)
       IN Query("find_all_circles", <<>>, r.ret, r.err)
    /\ UNCHANGED <<essential_activities, project_duration, path_default>>

find_isolate_activities ==
    /\ Query("find_isolate_activities", <<>>, FindIsolateActivities(Cur), "none")
    /\ UNCHANGED <<essential_activities, project_duration, path_default>>

\* find_all_paths(s, e) for arguments out of S.
FindAllPathsCall(S) ==
    /\ \E s \in S, e \in S :
         /\ Query("find_all_paths", <<s, e>>,
                  FindAllPaths(Cur, s, e, path_default), "none")
         /\ path_default' = PathAfterCall(path_default, s)
    /\ UNCHANGED <<essential_activities, project_duration>>

\* A find_critical_path that clears _project_duration when it fails.
FindCriticalPathCallClearing(S) ==
    /\ \E s \in S, e \in S :
         LET r == FindCriticalPath(Cur, essential_activities, project_duration, s, e)
         IN /\ Query("find_critical_path", <<s, e>>, r.ret, r.err)
            /\ project_duration' = (IF r.err = "none" THEN r.pd ELSE 0)
            /\ path_default' = PathAfterCall(path_default, s)
    /\ UNCHANGED essential_activities

\* find_critical_path(s, e) for arguments out of S.
FindCriticalPathCall(S) ==
    /\ \E s \in S, e \in S :
         LET r == FindCriticalPath(Cur, essential_activities, project_duration, s, e)
         IN /\ Query("find_critical_path", <<s, e>>, r.ret, r.err)
            /\ project_duration' = r.pd
            /\ path_default' = PathAfterCall(path_default, s)
    /\ UNCHANGED essential_activities

find_all_paths == FindAllPathsCall(Names)

find_critical_path == FindCriticalPathCall(Names)

\* The demonstration queries its network by names of its own.
DemoNames == {"start", "A", "C", "E", "end"}

demo_set_essential_activities == SetEssentialActivities({DemoEssential})

demo_find_all_paths == FindAllPathsCall(DemoNames)

demo_find_critical_path == FindCriticalPathCall(DemoNames)

Next ==
    \/ set_essential_activities
    \/ add_activity
    \/ remove_activity
    \/ find_and_remove_isolate_activities
    \/ validate_project
    \/ find_all_circles
    \/ find_isolate_activities
    \/ find_all_paths
    \/ find_critical_path

Spec == Init /\ [][Next]_vars

\* The demonstration: its network is built and queried, never edited.
NextDemo ==
    \/ set_essential_activities
    \/ demo_set_essential_activities
    \/ find_all_circles
    \/ find_isolate_activities
    \/ demo_find_all_paths
    \/ demo_find_critical_path

SpecDemo == InitDemo /\ [][NextDemo]_vars

\* A Graph on which add_activity is called again and again.
NextAdds == add_activity_in_sequence

SpecAdds == Init /\ [][NextAdds]_vars

\* ------------------------------------------- find_all_paths, step by step

\* One activation of find_all_paths: path = path + [start_vertex] done, paths
\* empty, the loop over graph[start_vertex] at its first edge.
Frame(start_vertex, path) ==
    [start_vertex |-> start_vertex, path |-> Append(path, start_vertex),
     i |-> 1, paths |-> <<>>]

\* A test that looks at the last activity of the path only.
VisitedIsLast(path, vertex) == vertex = path[Len(path)]

\* vertex in path.
Visited(path, vertex) == vertex \in Range(path)

\* The innermost activation returns r: to its caller, which appends r to its
\* paths and moves to its next edge, or to the outside.
Returned(c, r) ==
    LET n == Len(c.stack)
    IN IF n = 1 THEN [c EXCEPT !.stack = <<>>, !.result = r]
       ELSE [c EXCEPT !.stack =
                 Append(SubSeq(c.stack, 1, n - 2),
                        [c.stack[n - 1] EXCEPT !.paths = @ \o r, !.i = @ + 1])]

\* What the innermost activation does next.
Stepped(g, c) ==
    LET n == Len(c.stack)
        f == c.stack[n]
        end_vertex == c.args[2]
    IN IF f.start_vertex = end_vertex THEN Returned(c, <<f.path>>)
       ELSE IF f.start_vertex \notin Keys(g) THEN Returned(c, <<>>)
       ELSE IF f.i > Len(Get(g, f.start_vertex)) THEN Returned(c, f.paths)
       ELSE LET vertex == Get(g, f.start_vertex)[f.i].next
            IN IF Visited(f.path, vertex)
               THEN [c EXCEPT !.stack[n].i = @ + 1]
               ELSE IF n < RecursionLimit
               THEN [c EXCEPT !.stack = Append(@, Frame(vertex, f.path))]
               ELSE [c EXCEPT !.pc = "raised", !.stack = <<>>]

\* find_all_paths(s, e) or find_critical_path(s, e) is called.
call_begin ==
    /\ call.pc = "idle"
    /\ \E name \in {"find_all_paths", "find_critical_path"}, s \in Names, e \in Names :
         call' = [pc |-> "running", name |-> name, args |-> <<s, e>>,
                  stack |-> <<Frame(s, path_default)>>, result |-> <<>>]
    /\ UNCHANGED <<activities_dict, heap, essential_activities, es_ls_ef_lf,
                   project_duration, op, args, ret, err, pre, nops, path_default>>

\* The innermost activation of find_all_paths goes on.
call_step ==
    /\ call.pc = "running"
    /\ call.stack # <<>>
    /\ call' = Stepped(Cur, call)
    /\ UNCHANGED <<activities_dict, heap, essential_activities, es_ls_ef_lf,
                   project_duration, op, args, ret, err, pre, nops, path_default>>

\* The outermost find_all_paths has returned or raised: the call ends, for
\* find_critical_path after its loops over the paths.
call_return ==
    /\ call.pc = "raised" \/ (call.pc = "running" /\ call.stack = <<>>)
    /\ LET r == IF call.pc = "raised"
                THEN [err |-> "RecursionError", ret |-> <<>>, pd |-> project_duration]
                ELSE IF call.name = "find_all_paths"
                THEN [err |-> "none", ret |-> call.result, pd |-> project_duration]
                ELSE CriticalPathOf(Cur, essential_activities, project_duration,
                                    call.result, call.args[2])
       IN /\ op' = call.name
          /\ args' = call.args
          /\ ret' = r.ret
          /\ err' = r.err
          /\ project_duration' = r.pd
    /\ pre' = Cur
    /\ path_default' = PathAfterCall(path_default, call.args[1])
    /\ call' = [call EXCEPT !.pc = "done"]
    /\ UNCHANGED <<activities_dict, heap, essential_activities, es_ls_ef_lf, nops>>

\* A Graph built with or without an empty essential_activities, and one call.
InitCalls ==
    \E d \in InitDicts, ess \in {NoEssential, EmptyEssential} : Constructed(d, ess)

NextCalls ==
    \/ call_begin
    \/ call_step
    \/ call_return

\* The interpreter runs a call that has begun on to its end.
SpecCalls == InitCalls /\ [][NextCalls]_vars /\ WF_vars(NextCalls)

\* ------------------------------------------------------------- properties

\* The activities of a network: its keys and the successors its edges name.
Nodes(g) == Keys(g) \cup UNION {{e.next : e \in Range(Get(g, n))} : n \in Keys(g)}

HasEdge(g, u, v) == u \in Keys(g) /\ \E e \in Range(Get(g, u)) : e.next = v

\* p is a simple directed path from s to e.
IsSimplePath(g, p, s, e) ==
    /\ Len(p) >= 1
    /\ p[1] = s
    /\ p[Len(p)] = e
    /\ \A i \in DOMAIN p : \A j \in DOMAIN p : i # j => p[i] # p[j]
    /\ \A i \in 1..(Len(p) - 1) : HasEdge(g, p[i], p[i + 1])

\* Every sequence of at most as many activities as there are, out of N.
SeqsOver(N) == UNION {[1..k -> N] : k \in 1..Cardinality(N)}

SimplePaths(g, s, e) ==
    {p \in SeqsOver(Nodes(g) \cup {s, e}) : IsSimplePath(g, p, s, e)}

\* Some activity lies on a directed cycle.
HasCycle(g) ==
    \E u \in Keys(g) : \E v \in Nodes(g) :
        HasEdge(g, u, v) /\ SimplePaths(g, v, u) # {}

\* The durations of the edges from u to v.
PairDurs(g, u, v) == {ed.dur : ed \in {x \in Range(Get(g, u)) : x.next = v}}

\* The sums along p from its k-th activity on, one edge duration per
\* consecutive pair.
RECURSIVE SumsFrom(_, _, _)
SumsFrom(g, p, k) ==
    IF k >= Len(p) THEN {0}
    ELSE {d + r : d \in PairDurs(g, p[k], p[k + 1]), r \in SumsFrom(g, p, k + 1)}

CalledWith(name, s, e) == op = name /\ args = <<s, e>>

\* C1: on an acyclic network with essential_activities a mapping and a path
\* from start to end, find_critical_path sets project_duration to the
\* maximum over the paths of find_all_paths of the sum of the edge durations
\* along the path, one edge duration per consecutive pair: project_duration
\* is such a sum of one of the paths, and no path has only larger sums.
C1_DurationIsMaxPathSum ==
    \A s \in Names, e \in Names :
        (/\ CalledWith("find_critical_path", s, e)
         /\ ~essential_activities.none
         /\ ~HasCycle(Cur)
         /\ FindAllPaths(Cur, s, e, <<>>) # <<>>)
        => LET paths == Range(FindAllPaths(Cur, s, e, <<>>))
           IN /\ err = "none"
              /\ \E p \in paths : project_duration \in SumsFrom(Cur, p, 1)
              /\ \A p \in paths : \E x \in SumsFrom(Cur, p, 1) : x <= project_duration

\* C2: find_all_paths(start, end) returns exactly the simple directed paths
\* from start to end: each returned sequence is one, and each one is returned.
C2_AllPathsAreTheSimplePaths ==
    \A s \in Names, e \in Names :
        CalledWith("find_all_paths", s, e)
        => /\ err = "none"
           /\ \A i \in DOMAIN ret : IsSimplePath(Cur, ret[i], s, e)
           /\ \A p \in SimplePaths(Cur, s, e) : p \in Range(ret)

\* A call returned at least two paths, one of them through a third activity.
C2_Witness ==
    /\ op = "find_all_paths"
    /\ Len(ret) >= 2
    /\ \E i \in DOMAIN ret : Len(ret[i]) >= 3
    /\ \E i \in DOMAIN ret : \E j \in DOMAIN ret : ret[i] # ret[j]

\* p comes before q in depth-first order with the successors of each activity
\* in their stored order: where the two first part, the edge p takes stands
\* before the edge q takes.
DepthFirstBefore(g, p, q) ==
    \E m \in 2..Len(p) :
        /\ m <= Len(q)
        /\ SubSeq(p, 1, m - 1) = SubSeq(q, 1, m - 1)
        /\ p[m] # q[m]
        /\ LET lst == Get(g, p[m - 1])
           IN \E a \in DOMAIN lst : \E b \in DOMAIN lst :
                a < b /\ lst[a].next = p[m] /\ lst[b].next = q[m]

C5_RemoveLeavesNoEdge ==
    \A name \in Names :
        (op = "remove_activity" /\ args = <<name>>)
        => /\ name \notin Keys(Cur)
           /\ \A n \in Keys(Cur) : \A ed \in Range(Get(Cur, n)) : ed.next # name

\* C6: after add_activity(name, successors) on a name (other than end) that
\* is a key already, name's list holds every previous edge and every supplied
\* pair, nothing else, and no (successor, duration) pair twice.
C6_AddAppendsWithoutDuplicates ==
    \A name \in Names \ {"end"}, arg \in AddArgs :
        (op = "add_activity" /\ args = <<name, arg>> /\ name \in Keys(pre))
        => LET now == Get(Cur, name)
           IN /\ Range(now) = Range(Get(pre, name)) \cup Range(ArgItems(pre, arg))
              /\ \A i \in DOMAIN now : \A j \in DOMAIN now : i # j => now[i] # now[j]

\* Every successor an edge names is a key.
Closed(g) == \A n \in Keys(g) : \A ed \in Range(Get(g, n)) : ed.next \in Keys(g)

\* C7: add_activity and remove_activity keep the network closed: if every
\* successor was a key before the call, every successor is a key after it.
C7_ClosureKept ==
    (op \in {"add_activity", "remove_activity"} /\ Closed(pre)) => Closed(Cur)

\* No successor list holds two edges to one successor.
NoParallelEdges(g) ==
    \A n \in Keys(g) :
        LET lst == Get(g, n)
        IN \A i \in DOMAIN lst : \A j \in DOMAIN lst :
             i # j => lst[i].next # lst[j].next

\* C8: add_activity keeps the network free of parallel edges: if no list
\* held two edges to one successor before the call, none does after it.
C8_NoParallelEdgesKept ==
    (op = "add_activity" /\ NoParallelEdges(pre)) => NoParallelEdges(Cur)

\* c starts and ends at one activity, revisits no other, and follows edges.
IsCycleSeq(g, c) ==
    /\ Len(c) >= 2
    /\ c[1] = c[Len(c)]
    /\ \A i \in 1..(Len(c) - 1) : \A j \in 1..(Len(c) - 1) : i # j => c[i] # c[j]
    /\ \A i \in 1..(Len(c) - 1) : HasEdge(g, c[i], c[i + 1])

CycleSeqs(g) ==
    {c \in {Append(p, p[1]) : p \in SeqsOver(Nodes(g))} : IsCycleSeq(g, c)}

\* c and d are one cycle, started at the same or at another of its activities.
SameCycle(c, d) ==
    /\ Len(c) = Len(d)
    /\ \E r \in 0..(Len(c) - 2) :
         \A i \in 1..(Len(c) - 1) : d[i] = c[((i - 1 + r) % (Len(c) - 1)) + 1]

\* C9: find_all_circles returns simple cycles only, every simple cycle of the
\* network, and each cycle once.
C9_EachCycleOnce ==
    (op = "find_all_circles" /\ err = "none")
    => /\ \A i \in DOMAIN ret : IsCycleSeq(Cur, ret[i])
       /\ \A c \in CycleSeqs(Cur) : \E i \in DOMAIN ret : SameCycle(ret[i], c)
       /\ \A i \in DOMAIN ret : \A j \in DOMAIN ret :
            i # j => ~SameCycle(ret[i], ret[j])

\* C10: validate_project fails with a cyclic-network error exactly when
\* find_all_circles, on the network it is called on, returns a cycle.
C10_ValidateFailsIffCycle ==
    op = "validate_project"
    => LET circles == FindAllCircles(pre)
       IN (circles.err = "none" /\ circles.ret = <<>>)
          <=> (err # "CyclicNetworkError")

\* C11: find_critical_path, called on a network that has a directed cycle,
\* fails with a cyclic-network error instead of returning a path.
C11_CriticalPathFailsOnCycle ==
    (op = "find_critical_path" /\ HasCycle(Cur)) => err = "CyclicNetworkError"

\* g and h have the same keys in the same order, each with the same
\* successor list.
SameNetwork(g, h) ==
    /\ KeyList(g) = KeyList(h)
    /\ \A n \in Keys(g) : Get(g, n) = Get(h, n)

\* C12: validate_project does not prune: the keys and every successor list
\* are after it what they were before it, isolated activities included.
C12_ValidateDoesNotPrune ==
    op = "validate_project" => SameNetwork(Cur, pre)

\* C13: find_critical_path(start, end), when no path leads from start to end,
\* fails with an error, returns no path, and leaves project_duration at the
\* value it had before the call.
C13_UnreachableEndFails ==
    [][(op' = "find_critical_path"
        /\ SimplePaths(Cur, args'[1], args'[2]) = {})
       => (/\ err' # "none"
           /\ ret' = <<>>
           /\ project_duration' = project_duration)]_vars

\* A failed find_critical_path after one that had set a duration.
C13_Witness ==
    /\ op = "find_critical_path"
    /\ err = "ValueError"
    /\ SimplePaths(Cur, args[1], args[2]) = {}
    /\ project_duration > 0

\* C14: find_all_paths(start, end) fails with an unknown-activity error
\* whenever start is not a key of the network, whatever end is.
C14_UnknownStartFails ==
    (op = "find_all_paths" /\ args[1] \notin Keys(Cur))
    => err = "UnknownActivityError"

\* C15: remove_activity(name), when name is no key of the network, reports an
\* unknown-activity error to its caller.
C15_RemoveAbsentFails ==
    (op = "remove_activity" /\ args[1] \notin Keys(pre))
    => err = "UnknownActivityError"

\* The keys that have no edge and that no edge names.
Isolated(g) ==
    {n \in Keys(g) : Get(g, n) = <<>> /\ \A m \in Keys(g) : ~HasEdge(g, m, n)}

\* C16: find_isolate_activities returns exactly the keys that have no
\* outgoing edge and are named as a successor by no edge, each of them once.
C16_IsolatesAreTheUnconnectedKeys ==
    op = "find_isolate_activities"
    => /\ Range(ret) = Isolated(Cur)
       /\ Len(ret) = Cardinality(Isolated(Cur))

\* A call that returned some keys and left others out.
C16_Witness ==
    /\ op = "find_isolate_activities"
    /\ ret # <<>>
    /\ Keys(Cur) \ Range(ret) # {}

\* Every activity of g is reachable from s and reaches e.
AllOnTheWay(g, s, e) ==
    \A n \in Keys(g) : SimplePaths(g, s, n) # {} /\ SimplePaths(g, n, e) # {}

\* C17 as stated: whenever every activity is reachable from a start and
\* reaches an end, the one activity of a one-activity network being both,
\* find_isolate_activities returns nothing.
C17_NoIsolatesWhenAllOnTheWay ==
    op = "find_isolate_activities"
    => \A s \in Keys(Cur) : \A e \in Keys(Cur) :
         AllOnTheWay(Cur, s, e) => ret = <<>>

\* C17, amended: on a network of at least two activities in which every
\* activity is reachable from a start and reaches an end,
\* find_isolate_activities returns nothing.
C17_NoIsolatesWhenTwoOrMoreOnTheWay ==
    op = "find_isolate_activities"
    => \A s \in Keys(Cur) : \A e \in Keys(Cur) :
         (Cardinality(Keys(Cur)) >= 2 /\ AllOnTheWay(Cur, s, e)) => ret = <<>>

\* A call on such a network of two activities or more.
C17_Witness ==
    /\ op = "find_isolate_activities"
    /\ ret = <<>>
    /\ Cardinality(Keys(Cur)) >= 2
    /\ \E s \in Keys(Cur) : \E e \in Keys(Cur) : AllOnTheWay(Cur, s, e)

\* C18 as stated: add_activity(X, edges) and then remove_activity(X) leave
\* the keys the network had before the add, for X new or present.
C18_RoundTripKeepsKeys ==
    [][(op = "add_activity" /\ op' = "remove_activity" /\ args'[1] = args[1])
       => Keys(Cur') = Keys(pre)]_vars

\* C18, amended: add_activity(X, edges) and then remove_activity(X) leave the
\* keys the network had before the add, for every X that was no key then.
C18_RoundTripOfNewNameKeepsKeys ==
    [][(/\ op = "add_activity"
        /\ op' = "remove_activity"
        /\ args'[1] = args[1]
        /\ args[1] \notin Keys(pre))
       => Keys(Cur') = Keys(pre)]_vars

\* remove_activity('a') has emptied a network whose one key 'a' an
\* add_activity had made.
C18_Witness ==
    /\ op = "remove_activity"
    /\ args = <<"a">>
    /\ nops = 2
    /\ Keys(pre) = {"a"}
    /\ Keys(Cur) = {}

\* C19: find_all_paths or find_critical_path, called again with the same
\* arguments on the network as it is, returns what it returned, fails as it
\* failed, and leaves project_duration and the timing records as they were.
C19_RepeatedQueryAgrees ==
    [][(/\ op \in {"find_all_paths", "find_critical_path"}
        /\ op' = op
        /\ args' = args)
       => (/\ ret' = ret
           /\ err' = err
           /\ project_duration' = project_duration
           /\ es_ls_ef_lf' = es_ls_ef_lf)]_vars

\* A find_critical_path that returned a path of several activities, and that
\* can be called again with the same arguments.
C19_Witness ==
    /\ op = "find_critical_path"
    /\ err = "none"
    /\ Len(ret) >= 3
    /\ project_duration > 0
    /\ ENABLED (find_critical_path /\ args' = args)

\* C20: find_critical_path on a Graph whose essential_activities were left
\* at the constructor's default does what it does on the same network with
\* an empty mapping: the same path, the same project_duration, no error.
C20_DefaultEssentialLikeEmpty ==
    (op = "find_critical_path" /\ essential_activities.none)
    => LET r == FindCriticalPath(Cur, EmptyEssential, project_duration,
                                 args[1], args[2])
       IN /\ err = r.err
          /\ ret = r.ret
          /\ r.err = "none" => project_duration = r.pd

\* C21: once find_critical_path has set a duration, an add_activity or
\* remove_activity that changes the network does not leave project_duration
\* at that duration.
C21_EditInvalidatesDuration ==
    [][(/\ op' \in {"add_activity", "remove_activity"}
        /\ ~SameNetwork(Cur', Cur)
        /\ project_duration > 0)
       => project_duration' # project_duration]_vars

\* C22: after a successful find_critical_path(start, end) the timing record
\* of end holds, as its earliest finish (the third of ES, LS, EF, LF),
\* project_duration.
C22_EarliestFinishOfEndIsDuration ==
    (op = "find_critical_path" /\ err = "none")
    => /\ args[2] \in DOMAIN es_ls_ef_lf
       /\ es_ls_ef_lf[args[2]][3] = project_duration

\* C24: find_all_paths, find_critical_path, find_isolate_activities and
\* find_all_circles leave the keys and every successor list as they were,
\* whether they return or raise.
C24_QueriesLeaveNetworkAlone ==
    op \in {"find_all_paths", "find_critical_path",
            "find_isolate_activities", "find_all_circles"}
    => Cur = pre

\* A query that raised on a network with activities.
C24_Witness ==
    /\ op \in {"find_critical_path", "find_all_circles"}
    /\ err # "none"
    /\ Keys(Cur) # {}
    /\ Cur = pre

\* The edges of lst that do not lead to name, in their order.
EdgesNotTo(lst, name) == SelectSeq(lst, LAMBDA ed : ed.next # name)

\* C26: remove_activity(name) keeps every other activity as a key, in the
\* order of the keys, and keeps in order every edge of another activity that
\* does not lead to name.
C26_RemoveKeepsTheRest ==
    op = "remove_activity"
    => /\ KeyList(Cur) = SelectSeq(KeyList(pre), LAMBDA n : n # args[1])
       /\ \A n \in Keys(pre) \ {args[1]} :
            EdgesNotTo(Get(Cur, n), args[1]) = EdgesNotTo(Get(pre, n), args[1])

\* A removal that dropped an edge of a list and kept another edge of it.
C26_Witness ==
    /\ op = "remove_activity"
    /\ \E n \in Keys(Cur) :
         /\ Get(Cur, n) # <<>>
         /\ Len(Get(Cur, n)) < Len(Get(pre, n))

\* C27: remove_activity(name), when name is no key, leaves the keys and
\* every successor list as they were.
C27_RemoveAbsentChangesNothing ==
    (op = "remove_activity" /\ args[1] \notin Keys(pre))
    => SameNetwork(Cur, pre)

\* C28: 'end' never has an outgoing edge, and add_activity('end', successors)
\* leaves the network as it was.
C28_EndGainsNoEdge ==
    /\ "end" \in Keys(Cur) => Get(Cur, "end") = <<>>
    /\ (op = "add_activity" /\ args[1] = "end") => Cur = pre

\* add_activity('end', successors) with a successor, on a network that has
\* 'end' and other activities with edges.
C28_Witness ==
    /\ op = "add_activity"
    /\ args[1] = "end"
    /\ ~args[2].omitted
    /\ args[2].items # <<>>
    /\ "end" \in Keys(Cur)
    /\ \E n \in Keys(Cur) : Get(Cur, n) # <<>>

\* C30: after find_and_remove_isolate_activities no activity is isolated,
\* the keys are the earlier keys without the earlier isolated ones, and every
\* key left has the successor list it had.
C30_PruneRemovesExactlyTheIsolated ==
    op = "find_and_remove_isolate_activities"
    => /\ FindIsolateActivities(Cur) = <<>>
       /\ KeyList(Cur) = SelectSeq(KeyList(pre), LAMBDA n : n \notin Isolated(pre))
       /\ \A n \in Keys(Cur) : Get(Cur, n) = Get(pre, n)

\* A pruning that removed an activity and left others.
C30_Witness ==
    /\ op = "find_and_remove_isolate_activities"
    /\ Keys(Cur) # Keys(pre)
    /\ Keys(Cur) # {}

\* The longest duration of a path from s to e, as find_critical_path adds it up.
LongestDuration(g, s, e) ==
    LET paths == FindAllPaths(g, s, e, <<>>)
    IN MaxOf([i \in DOMAIN paths |-> PathDuration(g, paths[i], e)] \o <<>>)

\* C23: when an activity is declared to wait for another one that has no edge
\* to it, then after a successful find_critical_path the earliest start
\* recorded for the waiting activity (the first of ES, LS, EF, LF) is at
\* least the longest duration from the start to the other one.
C23_EssentialRaisesEarliestStart ==
    (op = "find_critical_path" /\ err = "none" /\ ~essential_activities.none)
    => \A i \in DOMAIN essential_activities.map :
         \A j \in DOMAIN essential_activities.map[i][2] :
           LET waiting == essential_activities.map[i][1]
               other == essential_activities.map[i][2][j]
           IN (/\ waiting \in Keys(Cur)
               /\ ~HasEdge(Cur, other, waiting)
               /\ FindAllPaths(Cur, args[1], other, <<>>) # <<>>)
              => /\ waiting \in DOMAIN es_ls_ef_lf
                 /\ es_ls_ef_lf[waiting][1] >= LongestDuration(Cur, args[1], other)

\* C25: add_activity(name, successors), in any sequence of add_activity
\* calls, leaves the successor list of every activity other than name as it
\* was, and an activity added without a successor list has an empty one.
C25_AddChangesOnlyItsOwnList ==
    op = "add_activity"
    => /\ \A n \in Keys(pre) \ {args[1]} :
            n \in Keys(Cur) /\ Get(Cur, n) = Get(pre, n)
       /\ (args[2].omitted /\ args[1] \notin Keys(pre) /\ args[1] # "end")
          => Get(Cur, args[1]) = <<>>

\* C29: find_all_paths(start, end) and find_critical_path(start, end)
\* terminate on every network, also on one with a directed cycle: each call
\* comes to its end, and not by running out of nested calls.
C29_CallsTerminate == <>(call.pc = "done" /\ err # "RecursionError")

\* A find_critical_path that has come to its end on a network with a cycle,
\* with the path the whole call returns.
C29_Witness ==
    /\ call.pc = "done"
    /\ op = "find_critical_path"
    /\ err = "none"
    /\ HasCycle(Cur)
    /\ Len(ret) >= 3
    /\ ret = FindCriticalPath(Cur, essential_activities, 0, args[1], args[2]).ret

=============================================================================
